---- MODULE Spec2Model ----
(***************************************************************************)
(* Model of the trend-analysis pipeline of the stock-analysis chatbot      *)
(* (src/tools/trend.py): the three bar-source adapters                     *)
(* price_ohlcv_weekly_hourly / price_ohlcv_month_hourly /                  *)
(* price_ohlcv_200d_daily and the engine trend_analysis.                   *)
(*                                                                         *)
(* Floating-point numbers are modelled as tagged fixed-point values:       *)
(* [k |-> "fin", v |-> n] stands for n / Scale, [k |-> "nan"] for NaN and  *)
(* [k |-> "inf", v |-> +-1] for the two infinities.  The arithmetic and    *)
(* the comparisons follow numpy's float64 rules (division by zero yields   *)
(* an infinity or NaN and raises nothing, every ordered comparison with    *)
(* NaN is false, NaN != x is true).                                        *)
(***************************************************************************)
EXTENDS Integers, Sequences, FiniteSets, TLC

VARIABLES provider, call, payload, result, adapterCalls, computed, ind,
          node, messages, llm

\* The state of the trend engine and its provider.
trendVars == <<provider, call, payload, result, adapterCalls, computed, ind>>

\* The state of the agent graph: the node about to run, the thread's message
\* list, and the outcome of the latest LLM call.
graphVars == <<node, messages, llm>>

vars == <<provider, call, payload, result, adapterCalls, computed, ind,
          node, messages, llm>>

(***************************************************************************)
(* Bounds of the model.                                                    *)
(***************************************************************************)
\* Bars served beyond the engine's minimum bar count.
MaxExtra == 1

\* Messages one conversation thread may hold.
MaxMessages == 6

\* Fixed-point resolution: three decimal digits.
Scale == 10 * 10 * 10

(***************************************************************************)
(* float64 values and numpy arithmetic.                                    *)
(***************************************************************************)
F(n) == [k |-> "fin", v |-> n]

U(n) == F(n * Scale)

NaN == [k |-> "nan", v |-> 0]

PInf == [k |-> "inf", v |-> 1]

NInf == [k |-> "inf", v |-> -1]

IsNaN(a) == a.k = "nan"

IsFin(a) == a.k = "fin"

Abs(n) == IF n < 0 THEN -n ELSE n

Sign(n) == IF n < 0 THEN -1 ELSE IF n > 0 THEN 1 ELSE 0

\* Integer division rounding toward zero (sign-symmetric, like float rounding).
RDiv(a, b) == Sign(a) * Sign(b) * (Abs(a) \div Abs(b))

Inf(s) == IF s < 0 THEN NInf ELSE PInf

FNeg(a) == IF IsNaN(a) THEN NaN ELSE [k |-> a.k, v |-> -a.v]

FAdd(a, b) ==
    IF IsNaN(a) \/ IsNaN(b) THEN NaN
    ELSE IF a.k = "inf" /\ b.k = "inf" THEN (IF a.v = b.v THEN a ELSE NaN)
    ELSE IF a.k = "inf" THEN a
    ELSE IF b.k = "inf" THEN b
    ELSE F(a.v + b.v)

FSub(a, b) == FAdd(a, FNeg(b))

FMul(a, b) ==
    IF IsNaN(a) \/ IsNaN(b) THEN NaN
    ELSE IF a.k = "inf" \/ b.k = "inf"
         THEN (IF a.v = 0 \/ b.v = 0 THEN NaN ELSE Inf(Sign(a.v) * Sign(b.v)))
    ELSE F(RDiv(a.v * b.v, Scale))

\* numpy float64 division: x/0 is +-inf, 0/0 is NaN, nothing is raised.
FDiv(a, b) ==
    IF IsNaN(a) \/ IsNaN(b) THEN NaN
    ELSE IF a.k = "inf" /\ b.k = "inf" THEN NaN
    ELSE IF a.k = "inf" THEN Inf(a.v * (IF b.v < 0 THEN -1 ELSE 1))
    ELSE IF b.k = "inf" THEN F(0)
    ELSE IF b.v = 0 THEN (IF a.v = 0 THEN NaN ELSE Inf(a.v))
    ELSE F(RDiv(a.v * Scale, b.v))

\* Product of a float and a whole number.
FMulInt(a, n) == IF IsFin(a) THEN F(a.v * n) ELSE IF n = 0 THEN NaN ELSE Inf(a.v * Sign(n))

\* Division of a float by a positive whole number.
FDivInt(a, n) == IF IsFin(a) THEN F(RDiv(a.v, n)) ELSE a

FGt(a, b) ==
    IF IsNaN(a) \/ IsNaN(b) THEN FALSE
    ELSE IF a.k = "inf" /\ b.k = "inf" THEN a.v > b.v
    ELSE IF a.k = "inf" THEN a.v > 0
    ELSE IF b.k = "inf" THEN b.v < 0
    ELSE a.v > b.v

FLt(a, b) == FGt(b, a)

FEq(a, b) == ~IsNaN(a) /\ ~IsNaN(b) /\ a = b

FNe(a, b) == ~FEq(a, b)

FAbs(a) == IF IsNaN(a) THEN NaN ELSE [k |-> a.k, v |-> Abs(a.v)]

\* Python's round(x, 4) on a float: values of the model carry three decimals,
\* so only the non-finite cases need care (NaN and the infinities pass through).
Round4(a) == a

\* Python's round(x, 2): to the nearest hundredth.
Round2(a) ==
    IF ~IsFin(a) THEN a
    ELSE F(Sign(a.v) * (((Abs(a.v) + 5) \div 10) * 10))

\* Python's int(x) on a finite float: truncation toward zero.
IntOf(a) == F(RDiv(a.v, Scale) * Scale)

(***************************************************************************)
(* Sequence helpers.                                                       *)
(***************************************************************************)
Last(s) == s[Len(s)]

Tail20(s) == SubSeq(s, Len(s) - 19, Len(s))

\* Sum of a sequence of floats, left to right (a NaN sum stays NaN).
RECURSIVE FSumFrom(_, _, _)
FSumFrom(s, i, acc) ==
    IF i > Len(s) \/ IsNaN(acc) THEN acc
    ELSE FSumFrom(s, i + 1, FAdd(acc, s[i]))

FSum(s) == FSumFrom(s, 1, F(0))

\* pandas Series.rolling(w).mean().iloc[-1]: NaN unless the last w values
\* are all observations.
RollingMeanLast(s, w) ==
    IF Len(s) < w THEN NaN
    ELSE FDivInt(FSum(SubSeq(s, Len(s) - w + 1, Len(s))), w)

(***************************************************************************)
(* pandas Series.ewm(span=span, adjust=adjust).mean(), as pandas computes  *)
(* it (ignore_na=False, min_periods=0).  Weights are kept in units of the  *)
(* new observation's weight, so the new weight is 1 in both modes and the  *)
(* old weight restarts at 1/alpha = (span+1)/2 when adjust is False; the   *)
(* decay factor 1 - alpha is (span-1)/(span+1).                            *)
(***************************************************************************)
EwmRestart(span, adjust) == IF adjust THEN Scale ELSE ((span + 1) * Scale) \div 2

EwmFirst(xs, span, adjust) ==
    [weighted |-> xs[1], old_wt |-> EwmRestart(span, adjust), out |-> <<xs[1]>>]

EwmNext(st, cur, span, adjust) ==
    LET decayed == (st.old_wt * (span - 1)) \div (span + 1)
        isObs == ~IsNaN(cur)
        weighted ==
            IF IsNaN(st.weighted) THEN cur
            ELSE IF ~isObs THEN st.weighted
            ELSE IF st.weighted = cur THEN cur
            ELSE F(RDiv(decayed * st.weighted.v + Scale * cur.v, decayed + Scale))
        old_wt ==
            IF IsNaN(st.weighted) THEN st.old_wt
            ELSE IF ~isObs THEN decayed
            ELSE IF adjust THEN decayed + Scale
            ELSE EwmRestart(span, adjust)
    IN [weighted |-> weighted, old_wt |-> old_wt, out |-> Append(st.out, weighted)]

\* The loop over xs[i..], from the state st reached after xs[1..i-1].
RECURSIVE EwmRun(_, _, _, _, _)
EwmRun(xs, i, st, span, adjust) ==
    IF i > Len(xs) \/ Len(st.out) # i - 1 THEN st
    ELSE EwmRun(xs, i + 1, EwmNext(st, xs[i], span, adjust), span, adjust)

EwmMean(xs, span, adjust) ==
    EwmRun(xs, 2, EwmFirst(xs, span, adjust), span, adjust).out

(***************************************************************************)
(* JSON objects.  A record lists the keys it carries in `keys`; a field    *)
(* whose key is absent holds a filler value.                               *)
(***************************************************************************)
NoBar == <<>>

Payload(keys, symbol, error, current_price, barsKey, bars) ==
    [keys |-> keys, symbol |-> symbol, error |-> error,
     current_price |-> current_price, total_bars |-> Len(bars),
     barsKey |-> barsKey, bars |-> bars]

ErrorPayload(symbol, error) ==
    Payload({"symbol", "error"}, symbol, error, NaN, "", NoBar)

\* symbol.upper()
Upper(s) == IF s = "aapl" THEN "AAPL" ELSE IF s = "msft" THEN "MSFT" ELSE s

\* str(e) of the exception yfinance raised.
ProviderFault == "provider fault"

\* pd.isna(x)
IsNa(x) == IsNaN(x)

\* The bar dictionary appended for a raw row (identical in the three adapters).
BarOf(row) ==
    [time |-> row.t,
     open |-> Round4(row.Open),
     high |-> Round4(row.High),
     low |-> Round4(row.Low),
     close |-> Round4(row.Close),
     volume |-> IF ~IsNa(row.Volume) THEN IntOf(row.Volume) ELSE F(0)]

SkipMonth(row) == IsNa(row.Open)

SkipWeekly(row) == IsNa(row.Open) \/ IsNa(row.Volume)

Skip200d(row) == IsNa(row.Open)

\* The `continue` test of the adapter fn's loop over data.iterrows().
SkipRow(fn, row) ==
    CASE fn = "price_ohlcv_month_hourly" -> SkipMonth(row)
      [] fn = "price_ohlcv_weekly_hourly" -> SkipWeekly(row)
      [] fn = "price_ohlcv_200d_daily" -> Skip200d(row)

\* ohlcv_list after the loop: the bars of the rows not skipped, in order.
BarsWhere(rows, fn) ==
    LET kept == SelectSeq(rows, LAMBDA row : ~SkipRow(fn, row))
    IN [i \in 1..Len(kept) |-> BarOf(kept[i])]

price_ohlcv_month_hourly(symbol, prov) ==
    LET sym == Upper(symbol)
        ohlcv_list == BarsWhere(prov.rows, "price_ohlcv_month_hourly")
    IN IF prov.raises THEN ErrorPayload(sym, ProviderFault)
       ELSE IF prov.rows = <<>>
       THEN ErrorPayload(sym, "No hourly data found (invalid symbol or market closed)")
       ELSE Payload({"symbol", "current_price", "period", "total_bars",
                     "hourly_ohlcv_1month"},
                    sym, "", Round4(Last(prov.rows).Close),
                    "hourly_ohlcv_1month", ohlcv_list)

price_ohlcv_weekly_hourly(symbol, prov) ==
    LET sym == Upper(symbol)
        ohlcv_list == BarsWhere(prov.rows, "price_ohlcv_weekly_hourly")
    IN IF prov.raises THEN ErrorPayload(sym, "Failed to fetch data: provider fault")
       ELSE IF prov.rows = <<>>
       THEN ErrorPayload(sym, "No hourly OHLCV data found (market closed or invalid symbol?)")
       ELSE IF ohlcv_list = <<>>
       THEN ErrorPayload(sym, "No valid OHLCV bars after filtering NaNs")
       ELSE Payload({"symbol", "current_price", "hourly_ohlcv_last_week",
                     "total_bars"},
                    sym, "", Round4(Last(prov.rows).Close),
                    "hourly_ohlcv_last_week", ohlcv_list)

price_ohlcv_200d_daily(symbol, prov) ==
    LET sym == Upper(symbol)
        ohlcv_list == BarsWhere(prov.rows, "price_ohlcv_200d_daily")
    IN IF prov.raises THEN ErrorPayload(sym, ProviderFault)
       ELSE IF prov.rows = <<>>
       THEN ErrorPayload(sym, "No daily data found")
       ELSE Payload({"symbol", "current_price", "period", "total_bars",
                     "daily_ohlcv_200d"},
                    sym, "", Round4(Last(prov.rows).Close),
                    "daily_ohlcv_200d", ohlcv_list)

(***************************************************************************)
(* trend_analysis: the indicator computation (the locals of lines 212-265) *)
(***************************************************************************)
MinBars == 30

Column(bars, f) == [i \in 1..Len(bars) |-> bars[i][f]]

Minus(xs, ys) == [i \in 1..Len(xs) |-> FSub(xs[i], ys[i])]

\* np.diff(close)
Diff(xs) == [i \in 1..(Len(xs) - 1) |-> FSub(xs[i + 1], xs[i])]

\* np.where(delta > 0, delta, 0)
Gain(delta) == [i \in 1..Len(delta) |-> IF FGt(delta[i], F(0)) THEN delta[i] ELSE F(0)]

\* np.where(delta < 0, -delta, 0)
Loss(delta) == [i \in 1..Len(delta) |-> IF FLt(delta[i], F(0)) THEN FNeg(delta[i]) ELSE F(0)]

RECURSIVE SqrtIter(_, _)
SqrtIter(n, x) ==
    LET y == (x + n \div x) \div 2
    IN IF y >= x THEN x ELSE SqrtIter(n, y)

ISqrt(n) == IF n = 0 THEN 0 ELSE SqrtIter(n, n)

FSqrt(a) ==
    IF IsNaN(a) THEN NaN
    ELSE IF a.k = "inf" THEN (IF a.v > 0 THEN PInf ELSE NaN)
    ELSE IF a.v < 0 THEN NaN
    ELSE F(ISqrt(a.v * Scale))

\* pandas Series.rolling(w).std().iloc[-1]: the sample deviation (ddof=1).
RollingStdLast(s, w) ==
    IF Len(s) < w THEN NaN
    ELSE LET win == SubSeq(s, Len(s) - w + 1, Len(s))
             mean == FDivInt(FSum(win), w)
             sq == [i \in 1..w |-> FMul(FSub(win[i], mean), FSub(win[i], mean))]
         IN FSqrt(FDivInt(FSum(sq), w - 1))

\* Python's max() and min() over an array: a later item replaces the running
\* one only when the comparison is true, so a NaN never replaces and, once
\* running, is never replaced.
RECURSIVE PyMaxFrom(_, _, _)
PyMaxFrom(xs, i, m) ==
    IF i > Len(xs) THEN m
    ELSE IF FGt(xs[i], m) THEN PyMaxFrom(xs, i + 1, xs[i])
    ELSE PyMaxFrom(xs, i + 1, m)

PyMax(xs) == PyMaxFrom(xs, 2, xs[1])

RECURSIVE PyMinFrom(_, _, _)
PyMinFrom(xs, i, m) ==
    IF i > Len(xs) THEN m
    ELSE IF FLt(xs[i], m) THEN PyMinFrom(xs, i + 1, xs[i])
    ELSE PyMinFrom(xs, i + 1, m)

PyMin(xs) == PyMinFrom(xs, 2, xs[1])

PctChange(close) ==
    FMulInt(FDiv(FSub(Last(close), close[1]), close[1]), 100)

\* A plausible slip: the crossover test is turned around.
EmaTrendInverted(ema9, ema21) == IF FLt(ema9, ema21) THEN "bullish" ELSE "bearish"

\* ema_trend = "bullish" if ema9 > ema21 else "bearish"
EmaTrend(ema9, ema21) == IF FGt(ema9, ema21) THEN "bullish" ELSE "bearish"

\* A plausible slip: the plain crossover test, without the histogram
\* comparison.
MacdSignalCrossoverOnly(macd_line, signal_line, macd_hist) ==
    IF FGt(Last(macd_line), Last(signal_line)) THEN "bullish" ELSE "bearish"

MacdSignal(macd_line, signal_line, macd_hist) ==
    IF FGt(Last(macd_line), Last(signal_line))
       /\ FGt(macd_hist[Len(macd_hist)], macd_hist[Len(macd_hist) - 1])
    THEN "bullish" ELSE "bearish"

\* A plausible slip: the zero-loss guard is left out, so the quotient is taken
\* as numpy takes it.
RsUnguarded(avg_gain, avg_loss) == FDiv(avg_gain, avg_loss)

Rs(avg_gain, avg_loss) ==
    IF FNe(avg_loss, F(0)) THEN FDiv(avg_gain, avg_loss) ELSE U(100)

\* A plausible slip: the zero-gain case is decided before the RS test.
RsiZeroGainFirst(rs, avg_gain) ==
    IF FEq(avg_gain, F(0)) THEN U(0)
    ELSE IF FGt(rs, F(0)) THEN FSub(U(100), FDiv(U(100), FAdd(U(1), rs)))
    ELSE U(100)

Rsi(rs, avg_gain) ==
    IF FGt(rs, F(0)) THEN FSub(U(100), FDiv(U(100), FAdd(U(1), rs)))
    ELSE IF FEq(avg_gain, F(0)) THEN U(0) ELSE U(100)

\* A plausible slip: the equal-bands guard is left out, so the quotient is
\* taken as numpy takes it.
BbPositionUnguarded(last_close, upper, lower) ==
    FDiv(FSub(last_close, lower), FSub(upper, lower))

BbPosition(last_close, upper, lower) ==
    IF FNe(upper, lower)
    THEN FDiv(FSub(last_close, lower), FSub(upper, lower))
    ELSE F(Scale \div 2)

VolRatio(last_volume, vol_sma) ==
    IF FGt(vol_sma, F(0)) THEN FDiv(last_volume, vol_sma) ELSE U(1)

(***************************************************************************)
(* The trend strength score and the verdict (lines 267-292).               *)
(***************************************************************************)
\* A plausible slip: the floor of the clamp is left out.
ClampNoFloor(score) == IF score < 100 THEN score ELSE 100

\* score = max(0, min(100, score))
Clamp(score) ==
    LET capped == IF score < 100 THEN score ELSE 100
    IN IF capped > 0 THEN capped ELSE 0

\* A plausible slip: the volume term only ever adds.
RawScoreVolumeBonusOnly(pct_change, ema_trend, macd_signal, rsi, last_close, sma20, vol_ratio) ==
    50
    + (IF FGt(pct_change, U(3)) THEN 15 ELSE IF FLt(pct_change, U(-3)) THEN -15 ELSE 0)
    + (IF ema_trend = "bullish" THEN 15 ELSE -15)
    + (IF macd_signal = "bullish" THEN 15 ELSE -15)
    + (IF FGt(rsi, U(55)) THEN 10 ELSE IF FLt(rsi, U(45)) THEN -10 ELSE 0)
    + (IF FGt(last_close, sma20) THEN 10 ELSE -10)
    + (IF FGt(vol_ratio, F((13 * Scale) \div 10)) THEN 8 ELSE 0)

\* A plausible slip: the volume term weighs as much as the RSI term.
RawScoreVolumeTen(pct_change, ema_trend, macd_signal, rsi, last_close, sma20, vol_ratio) ==
    50
    + (IF FGt(pct_change, U(3)) THEN 15 ELSE IF FLt(pct_change, U(-3)) THEN -15 ELSE 0)
    + (IF ema_trend = "bullish" THEN 15 ELSE -15)
    + (IF macd_signal = "bullish" THEN 15 ELSE -15)
    + (IF FGt(rsi, U(55)) THEN 10 ELSE IF FLt(rsi, U(45)) THEN -10 ELSE 0)
    + (IF FGt(last_close, sma20) THEN 10 ELSE -10)
    + (IF FGt(vol_ratio, F((13 * Scale) \div 10)) THEN 10 ELSE -10)

\* The score before clamping (lines 268-274).
RawScore(pct_change, ema_trend, macd_signal, rsi, last_close, sma20, vol_ratio) ==
    50
    + (IF FGt(pct_change, U(3)) THEN 15 ELSE IF FLt(pct_change, U(-3)) THEN -15 ELSE 0)
    + (IF ema_trend = "bullish" THEN 15 ELSE -15)
    + (IF macd_signal = "bullish" THEN 15 ELSE -15)
    + (IF FGt(rsi, U(55)) THEN 10 ELSE IF FLt(rsi, U(45)) THEN -10 ELSE 0)
    + (IF FGt(last_close, sma20) THEN 10 ELSE -10)
    + (IF FGt(vol_ratio, F((13 * Scale) \div 10)) THEN 8 ELSE -8)

Verdict(score) ==
    IF score >= 75 THEN "VERY BULLISH"
    ELSE IF score >= 60 THEN "BULLISH"
    ELSE IF score >= 40 THEN "NEUTRAL"
    ELSE IF score >= 25 THEN "BEARISH"
    ELSE "VERY BEARISH"

Confidence(score) ==
    IF score >= 75 THEN "High"
    ELSE IF score >= 60 THEN "Moderate-High"
    ELSE IF score >= 40 THEN "Low"
    ELSE IF score >= 25 THEN "Moderate-High"
    ELSE "High"

\* The locals of one run of the indicator computation.
Indicators(bars) ==
    LET close == Column(bars, "close")
        volume == Column(bars, "volume")
        n == Len(bars)
        pct_change == PctChange(close)
        ema9 == Last(EwmMean(close, 9, FALSE))
        ema21 == Last(EwmMean(close, 21, FALSE))
        ema_trend == EmaTrend(ema9, ema21)
        exp1 == EwmMean(close, 12, TRUE)
        exp2 == EwmMean(close, 26, TRUE)
        macd_line == Minus(exp1, exp2)
        signal_line == EwmMean(macd_line, 9, TRUE)
        macd_hist == Minus(macd_line, signal_line)
        macd_signal == MacdSignal(macd_line, signal_line, macd_hist)
        delta == Diff(close)
        avg_gain == RollingMeanLast(Gain(delta), 14)
        avg_loss == RollingMeanLast(Loss(delta), 14)
        rs == Rs(avg_gain, avg_loss)
        rsi == Rsi(rs, avg_gain)
        sma20 == RollingMeanLast(close, 20)
        std20 == RollingStdLast(close, 20)
        upper == FAdd(sma20, FMulInt(std20, 2))
        lower == FSub(sma20, FMulInt(std20, 2))
        bb_width == FDiv(FSub(upper, lower), sma20)
        bb_position == BbPosition(close[n], upper, lower)
        vol_sma == RollingMeanLast(volume, 20)
        vol_ratio == VolRatio(volume[n], vol_sma)
        resistance == PyMax(Tail20(Column(bars, "high")))
        support == PyMin(Tail20(Column(bars, "low")))
        raw == RawScore(pct_change, ema_trend, macd_signal, rsi, close[n], sma20,
                        vol_ratio)
    IN [first_close |-> close[1], last_close |-> close[n],
        pct_change |-> pct_change, ema9 |-> ema9, ema21 |-> ema21,
        ema_trend |-> ema_trend,
        macd |-> Last(macd_line), macd_sig |-> Last(signal_line),
        hist |-> macd_hist[n], hist_prev |-> macd_hist[n - 1],
        macd_signal |-> macd_signal,
        avg_gain |-> avg_gain, avg_loss |-> avg_loss, rs |-> rs, rsi |-> rsi,
        sma20 |-> sma20, std20 |-> std20, upper |-> upper, lower |-> lower,
        bb_width |-> bb_width, bb_position |-> bb_position,
        bb_squeeze |-> FLt(bb_width, F((8 * Scale) \div 100)),
        vol_sma |-> vol_sma, vol_ratio |-> vol_ratio,
        resistance |-> resistance, support |-> support,
        raw_score |-> raw, score |-> Clamp(raw)]

(***************************************************************************)
(* The records trend_analysis returns.                                     *)
(***************************************************************************)
NoSignals ==
    [ema_9_21 |-> "", macd |-> "", rsi_14 |-> NaN, bollinger_position |-> "",
     bb_squeeze |-> "", volume_spike |-> FALSE, near_resistance |-> FALSE,
     near_support |-> FALSE]

NoLevels == [resistance |-> NaN, support |-> NaN, sma_20 |-> NaN]

Diagnostic(keys, symbol, error, warning) ==
    [keys |-> keys, symbol |-> symbol, error |-> error, warning |-> warning,
     analysis_period |-> "", current_price |-> NaN, price_change_percent |-> NaN,
     trend_verdict |-> "", confidence |-> "", trend_strength_score |-> 0,
     key_signals |-> NoSignals, levels |-> NoLevels]

SuccessKeys ==
    {"symbol", "analysis_period", "current_price", "price_change_percent",
     "trend_verdict", "confidence", "trend_strength_score", "key_signals",
     "levels"}

KeySignals(x) ==
    [ema_9_21 |-> IF x.ema_trend = "bullish" THEN "BULLISH" ELSE "BEARISH",
     macd |-> IF x.macd_signal = "bullish" THEN "BULLISH" ELSE "BEARISH",
     rsi_14 |-> Round2(x.rsi),
     bollinger_position |->
        IF FGt(x.bb_position, F((8 * Scale) \div 10)) THEN "near top"
        ELSE IF FLt(x.bb_position, F((2 * Scale) \div 10)) THEN "near bottom"
        ELSE "middle",
     bb_squeeze |-> IF x.bb_squeeze THEN "YES" ELSE "NO",
     volume_spike |-> FGt(x.vol_ratio, F((15 * Scale) \div 10)),
     near_resistance |->
        FLt(FDiv(FAbs(FSub(x.last_close, x.resistance)), x.last_close),
            F(Scale \div 100)),
     near_support |->
        FLt(FDiv(FAbs(FSub(x.last_close, x.support)), x.last_close),
            F(Scale \div 100))]

Success(symbol, period, x) ==
    [keys |-> SuccessKeys, symbol |-> symbol, error |-> "", warning |-> "",
     analysis_period |-> period,
     current_price |-> Round4(x.last_close),
     price_change_percent |-> Round2(x.pct_change),
     trend_verdict |-> Verdict(x.score),
     confidence |-> Confidence(x.score),
     trend_strength_score |-> x.score,
     key_signals |-> KeySignals(x),
     levels |-> [resistance |-> Round4(x.resistance),
                 support |-> Round4(x.support),
                 sma_20 |-> Round4(x.sma20)]]

NoPayload == Payload({}, "", "", NaN, "", NoBar)

ConfigError == Diagnostic({"error"}, "", "period must be '7d', '30d', or '200d'", "")

LowBarWarning(symbol) ==
    Diagnostic({"symbol", "warning"}, symbol, "", "Low bar count, accuracy reduced")

\* A plausible slip: the bar count is tested before the error field, so an
\* error payload (which has no bar list) is reported as a low bar count.
PropagatedAsLowBars(data) == LowBarWarning(data.symbol)

\* json.dumps(data) of an adapter payload that carries "error".
Propagated(data) ==
    Diagnostic(data.keys, data.symbol, data.error, "")

\* A plausible slip: an unknown period falls back to the weekly source.
DispatchWithDefault(period) ==
    CASE period = "30d" ->
            [fn |-> "price_ohlcv_month_hourly", key |-> "hourly_ohlcv_1month"]
      [] period = "200d" ->
            [fn |-> "price_ohlcv_200d_daily", key |-> "daily_ohlcv_200d"]
      [] OTHER ->
            [fn |-> "price_ohlcv_weekly_hourly", key |-> "hourly_ohlcv_last_week"]

\* The if/elif chain on period: the adapter to call and the payload key of
\* its bar list; fn is "none" in the else branch.
Dispatch(period) ==
    CASE period = "7d" ->
            [fn |-> "price_ohlcv_weekly_hourly", key |-> "hourly_ohlcv_last_week"]
      [] period = "30d" ->
            [fn |-> "price_ohlcv_month_hourly", key |-> "hourly_ohlcv_1month"]
      [] period = "200d" ->
            [fn |-> "price_ohlcv_200d_daily", key |-> "daily_ohlcv_200d"]
      [] OTHER -> [fn |-> "none", key |-> ""]

\* raw = <adapter>(symbol); data = json.loads(raw)
CallAdapter(fn, symbol, prov) ==
    CASE fn = "price_ohlcv_weekly_hourly" -> price_ohlcv_weekly_hourly(symbol, prov)
      [] fn = "price_ohlcv_month_hourly" -> price_ohlcv_month_hourly(symbol, prov)
      [] fn = "price_ohlcv_200d_daily" -> price_ohlcv_200d_daily(symbol, prov)

\* data.get(key, [])
BarsOf(data, key) == IF key \in data.keys /\ data.barsKey = key THEN data.bars ELSE <<>>

\* A plausible slip: the minimum itself is rejected.
TooFewBarsInclusive(bars) == Len(bars) <= MinBars

\* len(bars) < 30
TooFewBars(bars) == Len(bars) < MinBars

(***************************************************************************)
(* trend_analysis(symbol, period) against the data the provider serves.    *)
(* No step of lines 212-323 raises on bars an adapter produced: numpy      *)
(* signals a float division by zero by a warning and yields inf or NaN,    *)
(* NaN and the infinities pass through round() and json.dumps, so the      *)
(* except clause of line 325 is not entered.                               *)
(***************************************************************************)
trend_analysis(symbol, period, prov) ==
    LET sym == Upper(symbol)
        d == Dispatch(period)
    IN IF d.fn = "none"
       THEN [ret |-> ConfigError, data |-> NoPayload, calls |-> <<>>,
             computed |-> FALSE, ind |-> <<>>]
       ELSE
       LET data == CallAdapter(d.fn, sym, prov)
           bars == BarsOf(data, d.key)
       IN IF "error" \in data.keys
          THEN [ret |-> Propagated(data), data |-> data, calls |-> <<d.fn>>,
                computed |-> FALSE, ind |-> <<>>]
          ELSE IF TooFewBars(bars)
          THEN [ret |-> LowBarWarning(sym), data |-> data, calls |-> <<d.fn>>,
                computed |-> FALSE, ind |-> <<>>]
          ELSE LET x == Indicators(bars)
               IN [ret |-> Success(sym, period, x), data |-> data,
                   calls |-> <<d.fn>>, computed |-> TRUE, ind |-> <<x>>]

(***************************************************************************)
(* The data the market-data provider serves: the rows of the DataFrame     *)
(* ticker.history returns, or a fault it raises.                           *)
(***************************************************************************)
Max0(n) == IF n > 0 THEN n ELSE 0

\* Closing price, in whole units, of row i of n.
ShapeClose(sh, i, n) ==
    50 + sh.slope * (i - 1) + sh.zig * (i % 2) + sh.kick * Max0(i - (n - 3))

ShapeVolume(sh, i, n) == IF i = n THEN sh.vlast ELSE sh.vbase

Hit(sh, i, n) ==
    \/ sh.at = "all"
    \/ sh.at = "first" /\ i = 1
    \/ sh.at = "last" /\ i = n

RowOf(sh, i, n) ==
    LET c == ShapeClose(sh, i, n)
    IN [t |-> i,
        Open |-> IF sh.defect = "nanOpen" /\ Hit(sh, i, n) THEN NaN ELSE U(c),
        High |-> U(c + 1),
        Low |-> U(c - 1),
        Close |-> IF sh.defect = "nanClose" /\ Hit(sh, i, n) THEN NaN
                  ELSE IF sh.defect = "zeroClose" /\ Hit(sh, i, n) THEN U(0)
                  ELSE U(c),
        Volume |-> IF sh.defect = "nanVolume" /\ Hit(sh, i, n) THEN NaN
                   ELSE U(ShapeVolume(sh, i, n))]

RowsOf(sh, n) == [i \in 1..n |-> RowOf(sh, i, n)]

Lengths == {0, MinBars - 1} \cup (MinBars..(MinBars + MaxExtra))

Defects ==
    {[defect |-> "none", at |-> "first"]}
    \cup [defect : {"nanOpen", "nanVolume", "nanClose"}, at : {"first", "last", "all"}]
    \cup [defect : {"zeroClose"}, at : {"first"}]

Volumes == {[vbase |-> 0, vlast |-> 0], [vbase |-> 10, vlast |-> 10],
            [vbase |-> 10, vlast |-> 20]}

Shapes ==
    {[slope |-> s, zig |-> z, kick |-> k, vbase |-> v.vbase, vlast |-> v.vlast,
      defect |-> d.defect, at |-> d.at] :
        s \in {-1, 0, 1}, z \in {0, 2}, k \in {-3, 0, 3}, v \in Volumes, d \in Defects}

Symbols == {"aapl", "MSFT"}

Periods == {"7d", "30d", "200d", "1y"}

NoCall == [fn |-> "none", symbol |-> "", period |-> ""]

NoResult == Diagnostic({}, "", "", "")

Idle == [raises |-> FALSE, rows |-> <<>>, served |-> FALSE]

(***************************************************************************)
(* The agent graph of main.py.                                             *)
(***************************************************************************)
\* tools = [price_ohlcv, fundamentals, new_summariser, trend_analysis]
tools == <<"price_ohlcv", "fundamentals", "new_summariser", "trend_analysis">>

ToolNames == {tools[i] : i \in 1..Len(tools)}

\* The tool_calls an LLM response may carry: none, one call or two.
ToolCallLists ==
    {<<>>} \cup {<<t>> : t \in ToolNames} \cup {<<t, u>> : t, u \in ToolNames}

\* {"role": "user", "content": prompt}
UserMessage == [role |-> "user", content |-> "text", tool_calls |-> <<>>]

\* The response of llm_with_tools.invoke.
Response(calls) == [role |-> "assistant", content |-> "text", tool_calls |-> calls]

\* The message of chatbot's except clause: its content is a mapping
\* {"error": ...} and it has no tool_calls.
ErrorMessage == [role |-> "assistant", content |-> "mapping", tool_calls |-> <<>>]

\* The message tool_node appends for one tool call.
ToolMessage(name) == [role |-> "tool", content |-> name, tool_calls |-> <<>>]

\* The messages channel's reducer appends the node's messages to the list.
add_messages(left, right) == left \o right

\* chatbot(state): the LLM's response, or the error message when the call
\* raised.
chatbot(raised, calls) ==
    IF raised THEN <<ErrorMessage>> ELSE <<Response(calls)>>

\* router(state): "tools" when the last message has tool_calls, else END.
router(msgs) == IF Last(msgs).tool_calls # <<>> THEN "tools" ELSE "end"

\* tool_node: one tool message per call of the last message.
tool_node(msgs) ==
    [i \in 1..Len(Last(msgs).tool_calls) |-> ToolMessage(Last(msgs).tool_calls[i])]

(***************************************************************************)
(* State machine.                                                          *)
(***************************************************************************)
Init ==
    /\ node = "idle"
    /\ messages = <<>>
    /\ llm = "none"
    /\ provider = Idle
    /\ call = NoCall
    /\ payload = NoPayload
    /\ result = NoResult
    /\ adapterCalls = <<>>
    /\ computed = FALSE
    /\ ind = <<>>

\* The provider's state for the next request: the rows it will return, or
\* the fault it will raise.
ProviderServes ==
    /\ ~provider.served
    /\ \/ provider' = [raises |-> TRUE, rows |-> <<>>, served |-> TRUE]
       \/ \E sh \in Shapes, n \in Lengths :
            provider' = [raises |-> FALSE, rows |-> RowsOf(sh, n), served |-> TRUE]
    /\ UNCHANGED <<call, payload, result, adapterCalls, computed, ind>>
    /\ UNCHANGED graphVars

TrendAnalysis(symbol, period) ==
    /\ provider.served
    /\ call = NoCall
    /\ \E r \in {trend_analysis(symbol, period, provider)} :
          /\ call' = [fn |-> "trend_analysis", symbol |-> symbol, period |-> period]
          /\ payload' = r.data
          /\ result' = r.ret
          /\ adapterCalls' = r.calls
          /\ computed' = r.computed
          /\ ind' = r.ind
    /\ UNCHANGED provider
    /\ UNCHANGED graphVars

\* The caller has consumed the returned record; the next request starts afresh
\* (nothing is retained between invocations).
Done ==
    /\ call # NoCall
    /\ provider' = Idle
    /\ call' = NoCall
    /\ payload' = NoPayload
    /\ result' = NoResult
    /\ adapterCalls' = <<>>
    /\ computed' = FALSE
    /\ ind' = <<>>
    /\ UNCHANGED graphVars

Next ==
    \/ ProviderServes
    \/ \E symbol \in Symbols, period \in Periods : TrendAnalysis(symbol, period)
    \/ Done

Spec == Init /\ [][Next]_vars

\* graph.invoke({"messages": [user message]}, thread_id 1234): the message is
\* added to the thread's list and the run enters at chatbot (START -> chatbot).
Invoke ==
    /\ node \in {"idle", "end", "raised"}
    /\ Len(messages) + 2 <= MaxMessages
    /\ messages' = add_messages(messages, <<UserMessage>>)
    /\ node' = "chatbot"
    /\ llm' = "none"
    /\ UNCHANGED trendVars

\* One step of the chatbot node followed by its conditional edge. The node's
\* return value passes through the reducer, which builds a message object
\* from a dict. The error message's content is a mapping, not the text or
\* list a message holds: the message library, which is not part of this
\* repository, either takes it (taken) or raises out of graph.invoke.
ChatbotStep(raised, calls, taken) ==
    /\ node = "chatbot"
    /\ calls # <<>> => Len(messages) + 2 + Len(calls) <= MaxMessages
    /\ llm' = IF raised THEN "raised" ELSE "ok"
    /\ IF taken
       THEN /\ messages' = add_messages(messages, chatbot(raised, calls))
            /\ node' = router(messages')
       ELSE /\ messages' = messages
            /\ node' = "raised"
    /\ UNCHANGED trendVars

Chatbot ==
    \/ \E calls \in ToolCallLists : ChatbotStep(FALSE, calls, TRUE)
    \/ \E taken \in BOOLEAN : ChatbotStep(TRUE, <<>>, taken)

\* One step of the tools node followed by its edge back to chatbot.
Tools ==
    /\ node = "tools"
    /\ messages' = add_messages(messages, tool_node(messages))
    /\ node' = "chatbot"
    /\ UNCHANGED llm
    /\ UNCHANGED trendVars

GraphNext == Invoke \/ Chatbot \/ Tools

GraphSpec == Init /\ [][GraphNext]_vars

(***************************************************************************)
(* Claims.                                                                 *)
(***************************************************************************)
Called == call.fn = "trend_analysis"

\* The adapter was called and its payload carries no error.
Fetched == Called /\ adapterCalls # <<>> /\ "error" \notin payload.keys

IsSuccess == "trend_verdict" \in result.keys

LowBarText == "Low bar count, accuracy reduced"

C1_Table(score) ==
    CASE score \in 75..100 -> <<"VERY BULLISH", "High">>
      [] score \in 60..74 -> <<"BULLISH", "Moderate-High">>
      [] score \in 40..59 -> <<"NEUTRAL", "Low">>
      [] score \in 25..39 -> <<"BEARISH", "Moderate-High">>
      [] score \in 0..24 -> <<"VERY BEARISH", "High">>
      [] OTHER -> <<"", "">>

\* C1: for a series of at least 30 bars and a valid period, the success
\* record's trend_strength_score is an integer in 0..100 and its
\* (trend_verdict, confidence) pair is the one the threshold table assigns to
\* that score (>=75, >=60, >=40, >=25, otherwise), so a score has one verdict.
C1_ScoreAndVerdictFollowTable ==
    (Fetched /\ Len(payload.bars) >= MinBars /\ IsSuccess) =>
        /\ result.trend_strength_score \in 0..100
        /\ <<result.trend_verdict, result.confidence>>
              = C1_Table(result.trend_strength_score)

\* C1 witness: a success record for a 30-bar series in a middle band.
C1_Witness ==
    /\ Fetched /\ Len(payload.bars) = MinBars /\ IsSuccess
    /\ result.trend_verdict = "BULLISH"

C2_DPct(x) ==
    IF FGt(x.pct_change, U(3)) THEN 15 ELSE IF FLt(x.pct_change, U(-3)) THEN -15 ELSE 0

C2_DEma(x) == IF x.ema_trend = "bullish" THEN 15 ELSE -15

C2_DMacd(x) == IF x.macd_signal = "bullish" THEN 15 ELSE -15

C2_DRsi(x) ==
    IF FGt(x.rsi, U(55)) THEN 10 ELSE IF FLt(x.rsi, U(45)) THEN -10 ELSE 0

C2_DSma(x) == IF FGt(x.last_close, x.sma20) THEN 10 ELSE -10

C2_DVol(x) == IF FGt(x.vol_ratio, F((13 * Scale) \div 10)) THEN 8 ELSE -8

C2_Sum(x) ==
    50 + C2_DPct(x) + C2_DEma(x) + C2_DMacd(x) + C2_DRsi(x) + C2_DSma(x) + C2_DVol(x)

C2_AllBullish(x) ==
    /\ C2_DPct(x) = 15 /\ C2_DEma(x) = 15 /\ C2_DMacd(x) = 15
    /\ C2_DRsi(x) = 10 /\ C2_DSma(x) = 10 /\ C2_DVol(x) = 8

\* C2: the reported score is 50 plus the six independently evaluated terms,
\* clamped to 0..100; when all six conditions are bullish the sum is 123 and
\* the record reads score 100, VERY BULLISH, High.
C2_CompositeScore ==
    computed =>
        /\ result.trend_strength_score
              = (IF C2_Sum(ind[1]) < 0 THEN 0
                 ELSE IF C2_Sum(ind[1]) > 100 THEN 100 ELSE C2_Sum(ind[1]))
        /\ C2_AllBullish(ind[1]) =>
              /\ C2_Sum(ind[1]) = 123
              /\ result.trend_strength_score = 100
              /\ result.trend_verdict = "VERY BULLISH"
              /\ result.confidence = "High"

\* C2 witness: a run in which all six conditions are bullish.
C2_Witness == computed /\ C2_AllBullish(ind[1])

\* C3: a period outside 7d/30d/200d is answered by the config-error
\* diagnostic, with no adapter invoked and no indicator computed.
C3_InvalidPeriodRejectedBeforeFetch ==
    (Called /\ call.period \notin {"7d", "30d", "200d"}) =>
        /\ "error" \in result.keys
        /\ result.error = "period must be '7d', '30d', or '200d'"
        /\ adapterCalls = <<>>
        /\ ~computed /\ ind = <<>>

\* C3 witness: an invalid period while the provider has enough rows to serve.
C3_Witness ==
    /\ Called /\ call.period = "1y"
    /\ Len(provider.rows) >= MinBars
    /\ result.error = "period must be '7d', '30d', or '200d'"

\* C4: a payload without error whose bar list has fewer than 30 bars (an
\* empty list included) is answered by the low-bar-count warning carrying the
\* symbol, with no indicator computed and no score or verdict field; from 30
\* bars on the warning is never returned.
C4_LowBarCountWarning ==
    Fetched =>
        IF Len(payload.bars) < 30
        THEN /\ result.keys = {"symbol", "warning"}
             /\ result.warning = LowBarText
             /\ result.symbol = Upper(call.symbol)
             /\ ~computed /\ ind = <<>>
        ELSE /\ "warning" \notin result.keys
             /\ result.warning # LowBarText

\* C4 witness: the warning for a normal payload whose bar list is empty.
C4_Witness ==
    /\ Fetched /\ payload.bars = <<>> /\ provider.rows # <<>>
    /\ result.warning = LowBarText

\* C5 (as claimed): every diagnostic record carries the symbol and an error
\* or a warning message.
C5_DiagnosticCarriesSymbol ==
    (Called /\ ~IsSuccess) =>
        /\ "symbol" \in result.keys
        /\ result.symbol = Upper(call.symbol)
        /\ "error" \in result.keys \/ "warning" \in result.keys

\* C6: an adapter payload that carries an error is returned as it is, with
\* the symbol, before the bar count is looked at and with no indicator
\* computed: never as the low-bar-count warning, never as a verdict.
C6_AdapterErrorPropagated ==
    (Called /\ "error" \in payload.keys) =>
        /\ result.keys = {"symbol", "error"}
        /\ result.symbol = Upper(call.symbol)
        /\ result.error = payload.error /\ result.error # ""
        /\ result.warning # LowBarText
        /\ ~computed /\ ind = <<>>

\* C6 witness: the provider returned rows, the adapter reported an error.
C6_Witness ==
    /\ Called /\ "error" \in payload.keys /\ provider.rows # <<>>
    /\ result.error = payload.error

\* C7 (as claimed): every bar an adapter hands over comes from a raw row
\* whose open and volume are both present.
C7_NoBarFromNaNOpenOrVolume ==
    Called =>
        \A i \in 1..Len(payload.bars) :
            /\ ~IsNaN(provider.rows[payload.bars[i].time].Open)
            /\ ~IsNaN(provider.rows[payload.bars[i].time].Volume)

\* C8 (as claimed): when the provider returns rows and none survives the
\* adapter's filter, the adapter returns an error result, not a normal payload.
C8_NoSurvivorIsError ==
    (/\ Called /\ adapterCalls # <<>>
     /\ ~provider.raises /\ provider.rows # <<>>
     /\ \A i \in 1..Len(provider.rows) : SkipRow(adapterCalls[1], provider.rows[i]))
        => "error" \in payload.keys

\* C9 (as claimed): a series of at least 30 bars whose first close is zero
\* ends in an error record, not in a success record with a verdict.
C9_ZeroFirstCloseIsError ==
    (/\ Fetched /\ Len(payload.bars) >= MinBars
     /\ payload.bars[1].close = F(0))
        => "error" \in result.keys /\ ~IsSuccess

\* C10 (as claimed): a NaN among the bar values of a computed series ends in
\* an error record carrying the symbol, never in a success record.
C10_NaNNeverYieldsSuccess ==
    (/\ Fetched /\ Len(payload.bars) >= MinBars
     /\ \E i \in 1..Len(payload.bars) : IsNaN(payload.bars[i].close))
        => /\ "error" \in result.keys /\ "symbol" \in result.keys
           /\ ~IsSuccess

\* The computed series rises strictly from bar to bar.
C11_Rising ==
    /\ computed
    /\ \A i \in 1..(Len(payload.bars) - 1) :
          FLt(payload.bars[i].close, payload.bars[i + 1].close)

\* C11 (as claimed): a strictly rising series of at least 30 bars resolves to
\* a bullish EMA trend and a bullish MACD signal, and scores at least
\* 50 + 15 + 15.
C11_RisingAllBullish ==
    C11_Rising =>
        /\ ind[1].ema_trend = "bullish"
        /\ ind[1].macd_signal = "bullish"
        /\ ind[1].raw_score >= 80

\* C11 (amended): a strictly rising series of at least 30 bars resolves to a
\* bullish EMA trend, an RSI above 55 and a last close above SMA20; the MACD
\* signal may be bearish (the histogram of a steady rise is already shrinking
\* at the last bar), so the score before clamping is at least
\* 50 + 15 - 15 + 10 + 10 - 8 = 62, and at least 92 when the MACD signal is
\* bullish.
C11_RisingEmaBullishScoreBound ==
    C11_Rising =>
        /\ ind[1].ema_trend = "bullish"
        /\ FGt(ind[1].rsi, U(55))
        /\ FGt(ind[1].last_close, ind[1].sma20)
        /\ ind[1].raw_score >= 62
        /\ result.trend_strength_score >= 62
        /\ ind[1].macd_signal = "bullish" => ind[1].raw_score >= 92

\* C11 witness: a strictly rising series whose MACD signal is bearish.
C11_Witness ==
    /\ C11_Rising
    /\ ind[1].ema_trend = "bullish"
    /\ ind[1].macd_signal = "bearish"

\* The last 14 deltas hold no loss and at least one gain.
C12_AllGain ==
    /\ computed
    /\ IsSuccess
    /\ FEq(ind[1].avg_loss, F(0))
    /\ FGt(ind[1].avg_gain, F(0))

\* C12 (as claimed): an all-gain window reports an RSI of 100.
C12_AllGainRsiIs100 ==
    C12_AllGain => result.key_signals.rsi_14 = U(100)

\* C12 (amended): an all-gain window takes no quotient by zero: RS is the
\* convention value 100, so RSI is the finite value 100 - 100/101 and the
\* reported rsi_14 is 99.01, not 100.
C12_AllGainRsiIsConvention ==
    C12_AllGain =>
        /\ ind[1].rs = U(100)
        /\ IsFin(ind[1].rsi)
        /\ ind[1].rsi = FSub(U(100), FDiv(U(100), U(101)))
        /\ result.key_signals.rsi_14 = F((9901 * Scale) \div 100)

\* C12 witness: a successful analysis of an all-gain window.
C12_Witness ==
    /\ C12_AllGain
    /\ result.key_signals.rsi_14 = F((9901 * Scale) \div 100)

\* The Bollinger bands of the last bar coincide.
C13_BandsCoincide ==
    /\ computed
    /\ IsSuccess
    /\ FEq(ind[1].upper, ind[1].lower)

\* C13: when the upper and lower Bollinger bands coincide, bb_position is
\* exactly 0.5, a finite value taken without a quotient by zero, and the
\* reported bollinger_position is "middle".
C13_CoincidingBandsGiveMiddle ==
    C13_BandsCoincide =>
        /\ ind[1].bb_position = F(Scale \div 2)
        /\ result.key_signals.bollinger_position = "middle"

\* C13 witness: a constant-price window, whose standard deviation is zero.
C13_Witness ==
    /\ C13_BandsCoincide
    /\ FEq(ind[1].std20, F(0))
    /\ \A i \in 1..Len(payload.bars) :
          FEq(payload.bars[i].close, payload.bars[1].close)
    /\ result.key_signals.bollinger_position = "middle"

\* The latest MACD line is strictly above the latest signal line and the
\* latest histogram value is strictly above the previous bar's.
C15_MomentumConfirmed(x) ==
    /\ FGt(x.macd, x.macd_sig)
    /\ FGt(x.hist, x.hist_prev)

\* C15: the MACD signal is bullish exactly when the latest MACD line is
\* strictly above the latest signal line and the latest histogram value is
\* strictly above the previous one; in every other case, equality included,
\* it is bearish and the MACD term of the score is -15.
C15_MacdBullishIffMomentumConfirmed ==
    computed =>
        /\ ind[1].macd_signal \in {"bullish", "bearish"}
        /\ ind[1].macd_signal = "bullish" <=> C15_MomentumConfirmed(ind[1])
        /\ IsSuccess =>
              (result.key_signals.macd = "BULLISH"
                  <=> C15_MomentumConfirmed(ind[1]))
        /\ ~C15_MomentumConfirmed(ind[1]) =>
              ind[1].raw_score
                 = 50 + C2_DPct(ind[1]) + C2_DEma(ind[1]) - 15 + C2_DRsi(ind[1])
                      + C2_DSma(ind[1]) + C2_DVol(ind[1])

\* C15 witness: the MACD line is above the signal line but the histogram did
\* not rise, and the signal is bearish.
C15_Witness ==
    /\ computed
    /\ FGt(ind[1].macd, ind[1].macd_sig)
    /\ ~FGt(ind[1].hist, ind[1].hist_prev)
    /\ ind[1].macd_signal = "bearish"

\* The MACD line of the computed closes when each average is the recursive
\* one of the EMA(9)/EMA(21) crossover (adjust = FALSE).
C16_RecursiveMacdLine ==
    Minus(EwmMean(Column(payload.bars, "close"), 12, FALSE),
          EwmMean(Column(payload.bars, "close"), 26, FALSE))

\* C16 (as claimed): the MACD line is EMA(12) - EMA(26) of the closes and the
\* signal line is EMA(9) of the MACD line, each EMA being the recursive
\* average seeded by the first value, alpha = 2/(span + 1), with no bias
\* adjustment.
C16_MacdUsesRecursiveEma ==
    computed =>
        /\ ind[1].macd = Last(C16_RecursiveMacdLine)
        /\ ind[1].macd_sig = Last(EwmMean(C16_RecursiveMacdLine, 9, FALSE))

\* C18: before clamping the score is congruent to 2 or 3 modulo 5 and lies
\* in -23..123; the reported score is 0, 100 or not a multiple of 5, and it
\* never equals 50 or a verdict threshold 25, 40, 60, 75.
C18_ScoreResidue ==
    computed =>
        /\ ind[1].raw_score % 5 \in {2, 3}
        /\ ind[1].raw_score \in -23..123
        /\ IsSuccess =>
              /\ \/ result.trend_strength_score \in {0, 100}
                 \/ result.trend_strength_score % 5 # 0
              /\ result.trend_strength_score \notin {50, 25, 40, 60, 75}

\* C18 witness: an unclamped score next to a verdict threshold.
C18_Witness ==
    /\ computed
    /\ IsSuccess
    /\ ind[1].raw_score \in {23, 27, 37, 42, 47, 52, 58, 62, 73, 77}
    /\ result.trend_strength_score = ind[1].raw_score

\* The last 14 deltas hold neither a gain nor a loss.
C19_FlatWindow ==
    /\ computed
    /\ FEq(ind[1].avg_gain, F(0))
    /\ FEq(ind[1].avg_loss, F(0))

\* C19: when the last 14 deltas are all zero, RS is the convention value 100,
\* RSI is 100 - 100/101 (reported as 99.01) and not 0, and the RSI term of
\* the score is +10; an RSI of 0 comes only from avg_gain = 0 with
\* avg_loss > 0.
C19_FlatWindowRsi ==
    /\ C19_FlatWindow =>
          /\ ind[1].rs = U(100)
          /\ ind[1].rsi = FSub(U(100), FDiv(U(100), U(101)))
          /\ FNe(ind[1].rsi, F(0))
          /\ C2_DRsi(ind[1]) = 10
          /\ ind[1].raw_score
                = 50 + C2_DPct(ind[1]) + C2_DEma(ind[1]) + C2_DMacd(ind[1]) + 10
                     + C2_DSma(ind[1]) + C2_DVol(ind[1])
          /\ IsSuccess => result.key_signals.rsi_14 = F((9901 * Scale) \div 100)
    /\ (computed /\ FEq(ind[1].rsi, F(0))) =>
          /\ FEq(ind[1].avg_gain, F(0))
          /\ FGt(ind[1].avg_loss, F(0))

\* C19 witness: a constant-close window, analysed successfully.
C19_Witness ==
    /\ C19_FlatWindow
    /\ IsSuccess
    /\ \A i \in 1..Len(payload.bars) :
          FEq(payload.bars[i].close, payload.bars[1].close)
    /\ C2_DRsi(ind[1]) = 10

\* C17 (as claimed): a run enters at chatbot; after a chatbot step the tools
\* node is next exactly when the last message carries tool_calls, otherwise
\* the run has ended; after a tools step chatbot is next; and when the LLM
\* call raised, the run has ended with chatbot's error message, which has no
\* tool_calls, as the last message, instead of raising.
C17_GraphRouting ==
    /\ node = "chatbot" => Last(messages).role \in {"user", "tool"}
    /\ node = "tools" => (llm = "ok" /\ Last(messages).tool_calls # <<>>)
    /\ node = "end" =>
          (Last(messages).role = "assistant" /\ Last(messages).tool_calls = <<>>)
    /\ llm = "raised" => (node = "end" /\ Last(messages) = ErrorMessage)
    /\ node # "raised"

====
